---------------------------- MODULE Spec2Model ----------------------------
(***************************************************************************)
(* DetachableJoint system plugin (gz-sim).                                 *)
(*                                                                         *)
(* One DetachableJoint instance, the entity component manager it talks to  *)
(* and the transport thread that delivers detach requests.  Configure and  *)
(* PreUpdate run on the simulation thread; OnDetachRequest runs on a       *)
(* transport thread and may interleave with PreUpdate at every point where *)
(* PreUpdate touches state the callback can see.                           *)
(***************************************************************************)
EXTENDS Integers, Sequences, FiniteSets, TLC

(***************************************************************************)
(* Bounds of the exploration.                                              *)
(***************************************************************************)
\* unrelated entities other systems may create
MaxOthers == 1
\* PreUpdate calls told apart by the tick counter (later calls count as MaxTicks)
MaxTicks == 3
\* connections made to the events
MaxConnections == 3

(***************************************************************************)
(* Values.                                                                 *)
(***************************************************************************)
\* the null entity handle
kNullEntity == 0

\* an sdf element that is not present
NoElement == "<absent>"

\* the models and links other systems may give their components to
World ==
    {[id |-> 1, kind |-> "model", name |-> "M", parent |-> kNullEntity],
     [id |-> 2, kind |-> "link", name |-> "base", parent |-> 1],
     [id |-> 3, kind |-> "link", name |-> "arm", parent |-> 1],
     [id |-> 4, kind |-> "model", name |-> "B", parent |-> kNullEntity],
     [id |-> 5, kind |-> "link", name |-> "arm", parent |-> 4]}

WorldSize == Cardinality(World)

\* topic names: one the transport accepts, one it rejects ("/" stays
\* invalid whatever the transport does to make a name valid)
GoodTopic == "/detach"
BadTopic == "/"

\* no OnDetachRequest call is under observation:
\*   pc, initialized, joint   the state the observed call ran in
\*   steps                    PreUpdate calls started since (2 stands for more)
\*   later                    another OnDetachRequest call ran since
\*   together                 and did before any PreUpdate call started
NoCommand ==
    [pc |-> "none", initialized |-> FALSE, joint |-> kNullEntity,
     steps |-> 0, later |-> FALSE, together |-> FALSE]

\* no Emit call has been made:
\*   event     the event emitted          type     its EventT instantiation
\*   last      handle of the listener invoked last
\*   atStart   handles connected to the event when Emit was called
\*   newToo    listeners connected during the call are invoked as well
\*   status    "running", "returned", or "aborted" by a listener's exception
NoEmission ==
    [event |-> "none", type |-> <<>>, last |-> 0, atStart |-> {},
     newToo |-> FALSE, status |-> "none"]

\* the <plugin> elements Configure is called with
SdfElements ==
    [parent_link : {NoElement, "base"},
     child_model : {NoElement, "__model__", "B"},
     child_link : {NoElement, "arm"},
     topic : {NoElement},
     suppress_child_warning : {NoElement}]
    \cup
    [parent_link : {"base"},
     child_model : {"__model__", "B"},
     child_link : {"arm"},
     topic : {NoElement, GoodTopic, BadTopic},
     suppress_child_warning : {NoElement, "true"}]

VARIABLES
    \* ---- entity component manager
    store,                  \* entities present: [id, kind, name, parent]
    entityCount,            \* last entity id handed out
    jointComponents,        \* DetachableJoint components: [entity, parentLink, childLink, jointType]
    removeRequests,         \* entities whose removal was requested
    \* ---- DetachableJoint members
    model,
    parentLinkEntity,
    childLinkEntity,
    detachableJointEntity,
    childModelName,
    childLinkName,
    topic,
    suppressChildWarning,
    validConfig,
    initialized,
    detachRequested,
    \* ---- transport node
    subscriptions,          \* topics of the node.Subscribe calls, in order
    \* ---- control
    pc,                     \* position of the simulation thread
    warned,                 \* warning written by the PreUpdate call in progress / last returned
    \* ---- history
    sdf,                    \* the element Configure was called with
    tick,                   \* number of PreUpdate calls started
    firstResolveTick,       \* first call that started with both child lookups succeeding
    initTick,               \* the call that set initialized
    commanded,              \* OnDetachRequest was called
    cmd,                    \* one OnDetachRequest call (any one) and what followed it
    ecmCalls,               \* store mutations made by the system, in order
    \* ---- events (Events.hh)
    listeners,              \* the connections made, in order; the index is the handle
    emission,               \* the Emit call in progress, or the last one
    invoked                 \* handles of the listeners that call has invoked, in order

ecmVars == <<store, entityCount, jointComponents, removeRequests>>
configVars == <<model, parentLinkEntity, childModelName, childLinkName, topic,
                suppressChildWarning, validConfig>>
jointVars == <<store, entityCount, jointComponents, removeRequests,
               model, parentLinkEntity, childLinkEntity,
               detachableJointEntity, childModelName, childLinkName, topic,
               suppressChildWarning, validConfig, initialized,
               detachRequested, subscriptions, pc, warned, sdf, tick,
               firstResolveTick, initTick, commanded, cmd, ecmCalls>>
busVars == <<listeners, emission, invoked>>
vars == <<store, entityCount, jointComponents, removeRequests,
          model, parentLinkEntity, childLinkEntity, detachableJointEntity,
          childModelName, childLinkName, topic, suppressChildWarning,
          validConfig, initialized, detachRequested, subscriptions,
          pc, warned, sdf, tick, firstResolveTick, initTick, commanded, cmd,
          ecmCalls, listeners, emission, invoked>>

(***************************************************************************)
(* Entity component manager and Model helpers.                             *)
(***************************************************************************)
\* the entity with the lowest id among the matches, or the null entity
EntityByComponents(matches) ==
    IF matches = {} THEN kNullEntity
    ELSE CHOOSE e \in {r.id : r \in matches} :
            \A r \in matches : e <= r.id

\* Model::Valid : the entity carries a Model component
ModelValid(e) == \E r \in store : r.id = e /\ r.kind = "model"

\* Model::Name
ModelName(e) ==
    IF \E r \in store : r.id = e
    THEN (CHOOSE r \in store : r.id = e).name
    ELSE ""

\* Model::LinkByName : Link + ParentEntity + Name
LinkByName(m, name) ==
    EntityByComponents({r \in store :
        r.kind = "link" /\ r.parent = m /\ r.name = name})

\* lookup by Model + Name
ModelByName(name) ==
    EntityByComponents({r \in store : r.kind = "model" /\ r.name = name})

\* transport's topic validation
IsValidTopic(t) == t \notin {BadTopic, ""}

\* validTopic : the first valid candidate, or the empty string
RECURSIVE validTopic(_)
validTopic(topics) ==
    IF topics = <<>> THEN ""
    ELSE IF IsValidTopic(Head(topics)) THEN Head(topics)
    ELSE validTopic(Tail(topics))

DefaultTopic(e) == "/model/" \o ModelName(e) \o "/detachable_joint/detach"

(***************************************************************************)
(* Initial state: members as default-initialised in the class; the world's *)
(* entities have their ids but no components yet.                          *)
(***************************************************************************)
Init ==
    /\ store = {}
    /\ entityCount = WorldSize
    /\ jointComponents = {}
    /\ removeRequests = {}
    /\ model = kNullEntity
    /\ parentLinkEntity = kNullEntity
    /\ childLinkEntity = kNullEntity
    /\ detachableJointEntity = kNullEntity
    /\ childModelName = ""
    /\ childLinkName = ""
    /\ topic = ""
    /\ suppressChildWarning = FALSE
    /\ validConfig = FALSE
    /\ initialized = FALSE
    /\ detachRequested = FALSE
    /\ subscriptions = <<>>
    /\ pc = "new"
    /\ warned = "none"
    /\ sdf = [parent_link |-> NoElement, child_model |-> NoElement,
              child_link |-> NoElement, topic |-> NoElement,
              suppress_child_warning |-> NoElement]
    /\ tick = 0
    /\ firstResolveTick = 0
    /\ initTick = 0
    /\ commanded = FALSE
    /\ cmd = NoCommand
    /\ ecmCalls = <<>>
    /\ listeners = <<>>
    /\ emission = NoEmission
    /\ invoked = <<>>

(***************************************************************************)
(* Other systems: entities appear in the store between the system's calls. *)
(***************************************************************************)
systemVars == <<model, parentLinkEntity, childLinkEntity, detachableJointEntity,
                childModelName, childLinkName, topic, suppressChildWarning,
                validConfig, initialized, detachRequested, subscriptions,
                pc, warned, sdf, tick, firstResolveTick, initTick, commanded,
                cmd, ecmCalls>>

\* a model or link of the world gets its components (again, after a removal:
\* to the system a re-created model or link differs from the removed one only
\* in its id)
Spawn(r) ==
    /\ pc \in {"new", "idle"}
    /\ r \notin store
    /\ r.kind = "link" => \E m \in store : m.id = r.parent
    /\ store' = store \cup {r}
    /\ UNCHANGED <<entityCount, jointComponents, removeRequests>>
    /\ UNCHANGED systemVars
    /\ UNCHANGED busVars

\* another system removes a model (with its links) or a link
Despawn(r) ==
    /\ pc \in {"new", "idle"}
    /\ r \in store
    /\ store' = {q \in store : q.id # r.id /\ q.parent # r.id}
    /\ UNCHANGED <<entityCount, jointComponents, removeRequests>>
    /\ UNCHANGED systemVars
    /\ UNCHANGED busVars

\* another system creates an entity of its own
CreateOther ==
    /\ pc \in {"new", "idle"}
    /\ Cardinality({q \in store : q.kind = "other"}) < MaxOthers
    /\ entityCount' = entityCount + 1
    /\ store' = store \cup
         {[id |-> entityCount + 1, kind |-> "other", name |-> "",
           parent |-> kNullEntity]}
    /\ UNCHANGED <<jointComponents, removeRequests>>
    /\ UNCHANGED systemVars
    /\ UNCHANGED busVars

(***************************************************************************)
(* DetachableJoint::Configure                                              *)
(***************************************************************************)
\* sdf::Element::Get<bool>
GetBool(text, default) ==
    IF text = NoElement THEN default ELSE text \in {"true", "1"}

\* ConfigureReturn without the check of child_link
ConfigureReturn_NoChildLinkCheck(_entity, _sdf) ==
    IF ~(\E r \in store : r.id = _entity /\ r.kind = "model") THEN 0
    ELSE IF _sdf.parent_link = NoElement THEN 1
    ELSE IF ~(\E r \in store : r.kind = "link" /\ r.parent = _entity
                                 /\ r.name = _sdf.parent_link) THEN 2
    ELSE IF _sdf.child_model = NoElement THEN 3
    ELSE 5

\* ConfigureReturn going on when the parent link is not in the model
ConfigureReturn_NoParentLookupCheck(_entity, _sdf) ==
    IF ~(\E r \in store : r.id = _entity /\ r.kind = "model") THEN 0
    ELSE IF _sdf.parent_link = NoElement THEN 1
    ELSE IF _sdf.child_model = NoElement THEN 3
    ELSE IF _sdf.child_link = NoElement THEN 4
    ELSE 5

\* how far Configure gets before it returns:
\*   0 entity is not a model          1 no parent_link element
\*   2 parent link not in the model   3 no child_model element
\*   4 no child_link element          5 end of the function
ConfigureReturn(_entity, _sdf) ==
    IF ~ModelValid(_entity) THEN 0
    ELSE IF _sdf.parent_link = NoElement THEN 1
    ELSE IF LinkByName(_entity, _sdf.parent_link) = kNullEntity THEN 2
    ELSE IF _sdf.child_model = NoElement THEN 3
    ELSE IF _sdf.child_link = NoElement THEN 4
    ELSE 5

\* the candidates with the default topic pushed first
TopicCandidates_DefaultFirst(_entity, _sdf) ==
    <<DefaultTopic(_entity)>>
    \o (IF _sdf.topic # NoElement THEN <<_sdf.topic>> ELSE <<>>)

\* lines 99-105: the vector of topics handed to validTopic
TopicCandidates(_entity, _sdf) ==
    (IF _sdf.topic # NoElement THEN <<_sdf.topic>> ELSE <<>>)
    \o <<DefaultTopic(_entity)>>

\* Configure subscribing to the topic itself, before any joint exists
Configure_Subscribes(_entity, _sdf) ==
    LET ret == ConfigureReturn(_entity, _sdf)
        candidates == TopicCandidates(_entity, _sdf)
    IN
    /\ pc = "new"
    /\ model' = _entity
    /\ parentLinkEntity' =
         IF ret >= 2 THEN LinkByName(_entity, _sdf.parent_link)
         ELSE parentLinkEntity
    /\ childModelName' = IF ret >= 4 THEN _sdf.child_model ELSE childModelName
    /\ childLinkName' = IF ret >= 5 THEN _sdf.child_link ELSE childLinkName
    /\ topic' = IF ret >= 5 THEN validTopic(candidates) ELSE topic
    /\ suppressChildWarning' =
         IF ret >= 5
         THEN GetBool(_sdf.suppress_child_warning, suppressChildWarning)
         ELSE suppressChildWarning
    /\ validConfig' = IF ret >= 5 THEN TRUE ELSE validConfig
    /\ subscriptions' =
         IF ret >= 5 THEN Append(subscriptions, validTopic(candidates))
         ELSE subscriptions
    /\ pc' = "idle"
    /\ sdf' = _sdf
    /\ UNCHANGED ecmVars
    /\ UNCHANGED <<childLinkEntity, detachableJointEntity, initialized,
                   detachRequested, warned, tick,
                   firstResolveTick, initTick, commanded, cmd, ecmCalls>>
    /\ UNCHANGED busVars

Configure(_entity, _sdf) ==
    LET ret == ConfigureReturn(_entity, _sdf)
        candidates == TopicCandidates(_entity, _sdf)
    IN
    /\ pc = "new"
    /\ model' = _entity
    /\ parentLinkEntity' =
         IF ret >= 2 THEN LinkByName(_entity, _sdf.parent_link)
         ELSE parentLinkEntity
    /\ childModelName' = IF ret >= 4 THEN _sdf.child_model ELSE childModelName
    /\ childLinkName' = IF ret >= 5 THEN _sdf.child_link ELSE childLinkName
    /\ topic' = IF ret >= 5 THEN validTopic(candidates) ELSE topic
    /\ suppressChildWarning' =
         IF ret >= 5
         THEN GetBool(_sdf.suppress_child_warning, suppressChildWarning)
         ELSE suppressChildWarning
    /\ validConfig' = IF ret >= 5 THEN TRUE ELSE validConfig
    /\ pc' = "idle"
    /\ sdf' = _sdf
    /\ UNCHANGED ecmVars
    /\ UNCHANGED <<childLinkEntity, detachableJointEntity, initialized,
                   detachRequested, subscriptions, warned, tick,
                   firstResolveTick, initTick, commanded, cmd, ecmCalls>>
    /\ UNCHANGED busVars

(***************************************************************************)
(* DetachableJoint::PreUpdate, in the steps between which the transport    *)
(* thread can run.                                                         *)
(***************************************************************************)
\* the child model looked up by this call
ChildModelEntity ==
    IF "__model__" = childModelName THEN model
    ELSE ModelByName(childModelName)

\* the child link looked up by this call (only when the model was found)
ChildLinkEntity == LinkByName(ChildModelEntity, childLinkName)

EcmCall(op, e) == [op |-> op, entity |-> e]

\* the number of the call that starts now
NextTick == IF tick < MaxTicks THEN tick + 1 ELSE tick

\* one more PreUpdate call has started since the observed command
StepStarted(c) ==
    IF c.pc = "none" THEN c
    ELSE [c EXCEPT !.steps = IF @ < 2 THEN @ + 1 ELSE @]

\* discovery given up after the first call
ShouldDiscover_FirstCallOnly == validConfig /\ ~initialized /\ tick = 0

\* discovery not stopped by initialized
ShouldDiscover_Always == validConfig

\* discovery run again once the joint handle is null
ShouldDiscover_Reattach ==
    validConfig /\ (~initialized \/ kNullEntity = detachableJointEntity)

\* line 121
ShouldDiscover == validConfig /\ ~initialized

\* the removal requested whatever the joint handle holds
ShouldDetach_NullHandle == initialized /\ detachRequested

\* lines 173-175
ShouldDetach ==
    initialized /\ detachRequested /\ kNullEntity # detachableJointEntity

\* the warning about the child link silenced like the one about the model
ChildLinkWarning_Suppressed ==
    IF ~suppressChildWarning THEN "child link" ELSE "none"

\* lines 160-164: the warning of a call that found the model, not the link
ChildLinkWarning == "child link"

\* lines 166-170: the warning of a call that did not find the child model
ChildModelWarning ==
    IF ~suppressChildWarning THEN "child model" ELSE "none"

\* the component with the two links swapped
JointComponent_Swapped(e) ==
    [entity |-> e,
     parentLink |-> ChildLinkEntity,
     childLink |-> parentLinkEntity,
     jointType |-> "fixed"]

\* lines 147-150: components::DetachableJoint({parent, child, "fixed"})
JointComponent(e) ==
    [entity |-> e,
     parentLink |-> parentLinkEntity,
     childLink |-> ChildLinkEntity,
     jointType |-> "fixed"]

\* lines 121-156: discovery; on success the joint entity and its component
\* are created and the detach topic is subscribed
PreUpdateDiscover ==
    /\ pc = "idle"
    /\ tick' = NextTick
    /\ firstResolveTick' =
         IF /\ firstResolveTick = 0
            /\ validConfig
            /\ kNullEntity # ChildModelEntity
            /\ kNullEntity # ChildLinkEntity
         THEN NextTick ELSE firstResolveTick
    /\ cmd' = StepStarted(cmd)
    /\ IF ShouldDiscover
       THEN IF kNullEntity # ChildModelEntity
            THEN /\ childLinkEntity' = ChildLinkEntity
                 /\ IF kNullEntity # ChildLinkEntity
                    THEN /\ entityCount' = entityCount + 1
                         /\ detachableJointEntity' = entityCount + 1
                         /\ store' = store \cup
                              {[id |-> entityCount + 1,
                                kind |-> "detachable_joint",
                                name |-> "", parent |-> kNullEntity]}
                         /\ jointComponents' = jointComponents \cup
                              {JointComponent(entityCount + 1)}
                         /\ ecmCalls' = ecmCalls \o
                              <<EcmCall("CreateEntity", entityCount + 1),
                                EcmCall("CreateComponent", entityCount + 1)>>
                         /\ subscriptions' = Append(subscriptions, topic)
                         /\ warned' = "none"
                         /\ pc' = "subscribed"
                    ELSE /\ warned' = ChildLinkWarning
                         /\ pc' = "check"
                         /\ UNCHANGED <<entityCount, detachableJointEntity,
                                        store, jointComponents, ecmCalls,
                                        subscriptions>>
            ELSE /\ warned' = ChildModelWarning
                 /\ pc' = "check"
                 /\ UNCHANGED <<entityCount, detachableJointEntity, store,
                                jointComponents, ecmCalls, subscriptions,
                                childLinkEntity>>
       ELSE /\ warned' = "none"
            /\ pc' = "check"
            /\ UNCHANGED <<entityCount, detachableJointEntity, store,
                           jointComponents, ecmCalls, subscriptions,
                           childLinkEntity>>
    /\ UNCHANGED <<removeRequests, detachRequested, initialized, initTick,
                   sdf, commanded>>
    /\ UNCHANGED configVars
    /\ UNCHANGED busVars

\* line 158
PreUpdateInitialized ==
    /\ pc = "subscribed"
    /\ initialized' = TRUE
    /\ initTick' = tick
    /\ pc' = "check"
    /\ UNCHANGED ecmVars
    /\ UNCHANGED configVars
    /\ UNCHANGED <<childLinkEntity, detachableJointEntity, detachRequested,
                   subscriptions, warned, sdf, tick, firstResolveTick,
                   commanded, cmd, ecmCalls>>
    /\ UNCHANGED busVars

\* PreUpdateCheck with the flag cleared at the end of every call
PreUpdateCheck_AlwaysClear ==
    /\ pc = "check"
    /\ pc' = IF ShouldDetach THEN "remove" ELSE "clear"
    /\ UNCHANGED ecmVars
    /\ UNCHANGED configVars
    /\ UNCHANGED <<childLinkEntity, detachableJointEntity, initialized,
                   detachRequested, subscriptions, warned, sdf, tick,
                   firstResolveTick, initTick, commanded, cmd, ecmCalls>>
    /\ UNCHANGED busVars

\* lines 173-175: the read of detachRequested
\* the flag of a command that came after the detachment cleared as well
PreUpdateCheck_ClearStale ==
    /\ pc = "check"
    /\ pc' = IF ShouldDetach THEN "remove"
             ELSE IF initialized /\ detachRequested THEN "clear"
             ELSE "idle"
    /\ UNCHANGED ecmVars
    /\ UNCHANGED configVars
    /\ UNCHANGED <<childLinkEntity, detachableJointEntity, initialized,
                   detachRequested, subscriptions, warned, sdf, tick,
                   firstResolveTick, initTick, commanded, cmd, ecmCalls>>
    /\ UNCHANGED busVars

PreUpdateCheck ==
    /\ pc = "check"
    /\ pc' = IF ShouldDetach THEN "remove" ELSE "idle"
    /\ UNCHANGED ecmVars
    /\ UNCHANGED configVars
    /\ UNCHANGED <<childLinkEntity, detachableJointEntity, initialized,
                   detachRequested, subscriptions, warned, sdf, tick,
                   firstResolveTick, initTick, commanded, cmd, ecmCalls>>
    /\ UNCHANGED busVars

\* PreUpdateRemove asking for the removal of the child link
PreUpdateRemove_ChildLink ==
    /\ pc = "remove"
    /\ removeRequests' = removeRequests \cup {childLinkEntity}
    /\ ecmCalls' = ecmCalls \o
         <<EcmCall("RequestRemoveEntity", childLinkEntity)>>
    /\ detachableJointEntity' = kNullEntity
    /\ pc' = "clear"
    /\ UNCHANGED <<store, entityCount, jointComponents>>
    /\ UNCHANGED configVars
    /\ UNCHANGED <<childLinkEntity, initialized, detachRequested,
                   subscriptions, warned, sdf, tick, firstResolveTick,
                   initTick, commanded, cmd>>
    /\ UNCHANGED busVars

\* PreUpdateRemove leaving the joint handle as it is
PreUpdateRemove_KeepHandle ==
    /\ pc = "remove"
    /\ removeRequests' = removeRequests \cup {detachableJointEntity}
    /\ ecmCalls' = ecmCalls \o
         <<EcmCall("RequestRemoveEntity", detachableJointEntity)>>
    /\ pc' = "clear"
    /\ UNCHANGED <<store, entityCount, jointComponents>>
    /\ UNCHANGED configVars
    /\ UNCHANGED <<childLinkEntity, detachableJointEntity, initialized,
                   detachRequested, subscriptions, warned, sdf, tick,
                   firstResolveTick, initTick, commanded, cmd>>
    /\ UNCHANGED busVars

\* lines 179-180
PreUpdateRemove ==
    /\ pc = "remove"
    /\ removeRequests' = removeRequests \cup {detachableJointEntity}
    /\ ecmCalls' = ecmCalls \o
         <<EcmCall("RequestRemoveEntity", detachableJointEntity)>>
    /\ detachableJointEntity' = kNullEntity
    /\ pc' = "clear"
    /\ UNCHANGED <<store, entityCount, jointComponents>>
    /\ UNCHANGED configVars
    /\ UNCHANGED <<childLinkEntity, initialized, detachRequested,
                   subscriptions, warned, sdf, tick, firstResolveTick,
                   initTick, commanded, cmd>>
    /\ UNCHANGED busVars

\* PreUpdateClear leaving the flag set
PreUpdateClear_NoClear ==
    /\ pc = "clear"
    /\ pc' = "idle"
    /\ UNCHANGED ecmVars
    /\ UNCHANGED configVars
    /\ UNCHANGED <<childLinkEntity, detachableJointEntity, initialized,
                   detachRequested, subscriptions, warned, sdf, tick,
                   firstResolveTick, initTick, commanded, cmd, ecmCalls>>
    /\ UNCHANGED busVars

\* PreUpdateClear making the system ready to attach again
PreUpdateClear_ResetInitialized ==
    /\ pc = "clear"
    /\ detachRequested' = FALSE
    /\ initialized' = FALSE
    /\ pc' = "idle"
    /\ UNCHANGED ecmVars
    /\ UNCHANGED configVars
    /\ UNCHANGED <<childLinkEntity, detachableJointEntity, subscriptions,
                   warned, sdf, tick, firstResolveTick, initTick, commanded,
                   cmd, ecmCalls>>
    /\ UNCHANGED busVars

\* line 181: the write of detachRequested
PreUpdateClear ==
    /\ pc = "clear"
    /\ detachRequested' = FALSE
    /\ pc' = "idle"
    /\ UNCHANGED ecmVars
    /\ UNCHANGED configVars
    /\ UNCHANGED <<childLinkEntity, detachableJointEntity, initialized,
                   subscriptions, warned, sdf, tick, firstResolveTick,
                   initTick, commanded, cmd, ecmCalls>>
    /\ UNCHANGED busVars

PreUpdate ==
    \/ PreUpdateDiscover
    \/ PreUpdateInitialized
    \/ PreUpdateCheck
    \/ PreUpdateRemove
    \/ PreUpdateClear

(***************************************************************************)
(* DetachableJoint::OnDetachRequest, called by the transport thread for    *)
(* each message on a subscribed topic.                                     *)
(***************************************************************************)
\* the history kept of an OnDetachRequest call
Observed(observe) ==
    IF observe
    THEN [pc |-> pc, initialized |-> initialized,
          joint |-> detachableJointEntity, steps |-> 0, later |-> FALSE,
          together |-> FALSE]
    ELSE IF cmd.pc = "none" THEN cmd
    ELSE [cmd EXCEPT !.later = TRUE,
                     !.together = @ \/ cmd.steps = 0]

\* OnDetachRequest removing the joint itself, on the transport thread
OnDetachRequest_RemovesJoint(observe) ==
    /\ subscriptions # <<>>
    /\ cmd' = Observed(observe)
    /\ commanded' = TRUE
    /\ detachRequested' = TRUE
    /\ IF kNullEntity # detachableJointEntity
       THEN /\ removeRequests' = removeRequests \cup {detachableJointEntity}
            /\ ecmCalls' = ecmCalls \o
                 <<EcmCall("RequestRemoveEntity", detachableJointEntity)>>
            /\ detachableJointEntity' = kNullEntity
       ELSE UNCHANGED <<removeRequests, ecmCalls, detachableJointEntity>>
    /\ UNCHANGED <<store, entityCount, jointComponents>>
    /\ UNCHANGED configVars
    /\ UNCHANGED <<childLinkEntity, initialized, subscriptions, pc, warned,
                   sdf, tick, firstResolveTick, initTick>>
    /\ UNCHANGED busVars

OnDetachRequest(observe) ==
    /\ subscriptions # <<>>
    /\ cmd' = Observed(observe)
    /\ commanded' = TRUE
    /\ detachRequested' = TRUE
    /\ UNCHANGED ecmVars
    /\ UNCHANGED configVars
    /\ UNCHANGED <<childLinkEntity, detachableJointEntity, initialized,
                   subscriptions, pc, warned, sdf, tick, firstResolveTick,
                   initTick, ecmCalls>>
    /\ UNCHANGED busVars

(***************************************************************************)
(* Events.hh: the events, each an instantiation of common::EventT with a   *)
(* callback signature and a tag type of its own, and the connections,      *)
(* emissions and disconnections made on them.  A listener runs in the      *)
(* context of the Emit call and may connect and disconnect while it runs.  *)
(***************************************************************************)
Pause ==
    [name |-> "Pause", signature |-> "void(bool)", tag |-> "PauseTag"]
Stop ==
    [name |-> "Stop", signature |-> "void(void)", tag |-> "StopTag"]
LoadPlugins ==
    [name |-> "LoadPlugins", signature |-> "void(Entity, sdf::ElementPtr)",
     tag |-> "LoadPluginsTag"]
Render ==
    [name |-> "Render", signature |-> "void(void)", tag |-> "RenderTag"]
EnableSensors ==
    [name |-> "EnableSensors", signature |-> "void(bool)",
     tag |-> "EnableSensorsTag"]
RemoveFromECM ==
    [name |-> "RemoveFromECM", signature |-> "void(unsigned int)",
     tag |-> "RemoveFromECMTag"]
AddToECM ==
    [name |-> "AddToECM",
     signature |-> "void(unsigned int, std::string, unsigned int)",
     tag |-> "AddToECMTag"]
UpdateGUIECM ==
    [name |-> "UpdateGUIECM",
     signature |-> "void(const EntityComponentManager &, const UpdateInfo &)",
     tag |-> "UpdateGUIECMTag"]

Events ==
    {Pause, Stop, LoadPlugins, Render, EnableSensors, RemoveFromECM,
     AddToECM, UpdateGUIECM}

\* the events connected to and emitted: the two pairs of equal signature
UsedEvents == {Pause, EnableSensors, Stop, Render}

\* the type told from the signature alone
EventType_NoTag(ev) == <<ev.signature>>

\* the type an event is: EventT<signature, tag>
EventType(ev) == <<ev.signature, ev.tag>>

\* handles of the listeners connected to events of the type
ConnectedTo(type) ==
    {h \in DOMAIN listeners : listeners[h].on /\ listeners[h].type = type}

\* Connect: the listener is added after those connected before
Connect(ev) ==
    /\ Len(listeners) < MaxConnections
    /\ listeners' = Append(listeners,
         [event |-> ev.name, type |-> EventType(ev), on |-> TRUE,
          disconnects |-> 0])
    /\ UNCHANGED <<emission, invoked>>
    /\ UNCHANGED jointVars

\* Disconnect: the connection of the handle is released; on a handle
\* released before it does nothing (the calls are counted up to two)
Disconnect(h) ==
    /\ h \in DOMAIN listeners
    /\ listeners' = [listeners EXCEPT
                       ![h].on = FALSE,
                       ![h].disconnects = IF @ < 2 THEN @ + 1 ELSE @]
    /\ UNCHANGED <<emission, invoked>>
    /\ UNCHANGED jointVars

\* Emit is called
Emit(ev, newToo) ==
    /\ emission.status # "running"
    /\ emission' = [event |-> ev.name, type |-> EventType(ev), last |-> 0,
                    atStart |-> ConnectedTo(EventType(ev)),
                    newToo |-> newToo, status |-> "running"]
    /\ invoked' = <<>>
    /\ UNCHANGED listeners
    /\ UNCHANGED jointVars

\* Pending taken from the listeners connected when Emit was called
Pending_AtStart == {h \in emission.atStart : h > emission.last}

\* the listeners the Emit call in progress has still to invoke
Pending ==
    {h \in ConnectedTo(emission.type) :
        /\ h > emission.last
        /\ emission.newToo \/ h \in emission.atStart}

\* the next listener in the order of connection is invoked; it returns or
\* raises, and what it raises ends the Emit call
EmitInvoke(raises) ==
    /\ emission.status = "running"
    /\ Pending # {}
    /\ LET h == CHOOSE x \in Pending : \A y \in Pending : x <= y
       IN  /\ invoked' = Append(invoked, h)
           /\ emission' = [emission EXCEPT
                             !.last = h,
                             !.status = IF raises THEN "aborted" ELSE @]
    /\ UNCHANGED listeners
    /\ UNCHANGED jointVars

\* no listener is left: Emit returns
EmitReturn ==
    /\ emission.status = "running"
    /\ Pending = {}
    /\ emission' = [emission EXCEPT !.status = "returned"]
    /\ UNCHANGED <<listeners, invoked>>
    /\ UNCHANGED jointVars

(***************************************************************************)
(* Specification                                                           *)
(***************************************************************************)
Environment ==
    \/ \E r \in World : Spawn(r)
    \/ \E r \in World : Despawn(r)
    \/ CreateOther

Next ==
    \/ Environment
    \/ \E _entity \in {1, 2, 4}, _sdf \in SdfElements :
          Configure(_entity, _sdf)
    \/ PreUpdate
    \/ \E observe \in BOOLEAN : OnDetachRequest(observe)

Spec == Init /\ [][Next]_vars

\* the simulation loop keeps calling PreUpdate and every call returns
LiveSpec == Spec /\ WF_vars(PreUpdate)

\* the events alone
BusNext ==
    \/ \E ev \in UsedEvents : Connect(ev)
    \/ \E h \in 1..MaxConnections : Disconnect(h)
    \/ \E ev \in UsedEvents, newToo \in BOOLEAN : Emit(ev, newToo)
    \/ \E raises \in BOOLEAN : EmitInvoke(raises)
    \/ EmitReturn

BusSpec == Init /\ [][BusNext]_vars

(***************************************************************************)
(* Properties                                                              *)
(***************************************************************************)
CreateCalls == {i \in DOMAIN ecmCalls : ecmCalls[i].op = "CreateEntity"}
ComponentCalls == {i \in DOMAIN ecmCalls : ecmCalls[i].op = "CreateComponent"}
RemoveCalls == {i \in DOMAIN ecmCalls : ecmCalls[i].op = "RequestRemoveEntity"}

\* the joint entity the system created (the null entity before that)
CreatedJoint ==
    IF CreateCalls = {} THEN kNullEntity
    ELSE ecmCalls[CHOOSE i \in CreateCalls : \A j \in CreateCalls : i <= j].entity

\* the system has not touched the store
NoStoreMutation ==
    /\ ecmCalls = <<>>
    /\ jointComponents = {}
    /\ removeRequests = {}
    /\ \A r \in store : r.kind # "detachable_joint"

\* the observed command was followed by exactly one PreUpdate call, which has
\* returned, and by no other command
OneStepAfterCommand ==
    /\ cmd.pc = "idle"
    /\ cmd.steps = 1
    /\ ~cmd.later
    /\ pc = "idle"

\* the removal of the created joint, and of nothing else, was requested and
\* the members are reset
Detached ==
    /\ CreatedJoint # kNullEntity
    /\ removeRequests = {CreatedJoint}
    /\ Cardinality(RemoveCalls) = 1
    /\ \A i \in RemoveCalls : ecmCalls[i].entity = CreatedJoint
    /\ detachableJointEntity = kNullEntity
    /\ ~detachRequested

\* C1 (as stated): in every state where initialized is true, OnDetachRequest
\* followed by one PreUpdate call leaves a remove-request for exactly the
\* joint entity created at initialization, a null detachableJointEntity and
\* detachRequested false.
C1_DetachInEveryInitializedState ==
    (OneStepAfterCommand /\ cmd.initialized) => Detached

\* C1 (amended): in every state where initialized is true and the joint is
\* still attached (detachableJointEntity is not null), OnDetachRequest
\* followed by one PreUpdate call leaves a remove-request for exactly the
\* joint entity created at initialization, a null detachableJointEntity and
\* detachRequested false.
C1_DetachCorrectness ==
    (OneStepAfterCommand /\ cmd.initialized /\ cmd.joint # kNullEntity)
        => (Detached /\ cmd.joint = CreatedJoint)

C1_Witness ==
    /\ OneStepAfterCommand
    /\ cmd.initialized
    /\ cmd.joint # kNullEntity
    /\ removeRequests = {cmd.joint}

\* a required element is absent from the element Configure was called with
MissingRequired ==
    \/ sdf.parent_link = NoElement
    \/ sdf.child_model = NoElement
    \/ sdf.child_link = NoElement

\* C2: when parent_link, child_model or child_link is missing, validConfig
\* is false after Configure and no PreUpdate call, however many and whatever
\* the store holds, creates an entity or a component or requests a removal.
C2_ConfigurationCompleteness ==
    (pc # "new" /\ MissingRequired) => (~validConfig /\ NoStoreMutation)

\* two PreUpdate calls have run on a store in which the child link named
\* "arm" is there to be found
C2_Witness ==
    /\ pc = "idle"
    /\ MissingRequired
    /\ sdf.parent_link # NoElement
    /\ tick >= 2
    /\ \E r \in store : r.kind = "link" /\ r.name = "arm" /\ r.parent = model

\* C3: with a valid configuration initialized is false after every
\* PreUpdate call before the first one that starts with child model and
\* child link both resolving, and is set by exactly that call, however many
\* calls failed before it.
C3_RetryUntilFound ==
    /\ initialized => (firstResolveTick # 0 /\ initTick = firstResolveTick)
    /\ (pc = "idle" /\ firstResolveTick # 0) => initialized
    /\ ~initialized => initTick = 0

\* initialized was set by a call that followed two failed ones
C3_Witness ==
    /\ pc = "idle"
    /\ initialized
    /\ initTick >= 3

\* C4: once initialized is true, PreUpdate calls with no detach command
\* received make no further store mutation and leave detachableJointEntity
\* unchanged: the store mutations stay the two of the initialization.
C4_IdempotentInitialization ==
    (initialized /\ ~commanded) =>
        /\ Len(ecmCalls) = 2
        /\ ecmCalls[1] = EcmCall("CreateEntity", detachableJointEntity)
        /\ ecmCalls[2] = EcmCall("CreateComponent", detachableJointEntity)
        /\ detachableJointEntity # kNullEntity
        /\ Cardinality(jointComponents) = 1
        /\ Cardinality({r \in store : r.kind = "detachable_joint"}) = 1
        /\ removeRequests = {}

\* two more calls have returned since the one that initialized
C4_Witness ==
    /\ pc = "idle"
    /\ initialized
    /\ ~commanded
    /\ initTick = 1
    /\ tick = 3

\* the first PreUpdate call started after the observed command has returned
NextStepReturned ==
    \/ cmd.steps >= 2
    \/ cmd.steps = 1 /\ pc = "idle"

\* C5: a command that runs while PreUpdate is in progress, at whichever
\* point, is not lost: if the joint handle was not null when the command
\* ran, the removal of the joint has been requested once the first PreUpdate
\* call started after the command has returned.
C5_RaceSafety ==
    (cmd.pc # "none" /\ cmd.joint # kNullEntity /\ NextStepReturned)
        => (cmd.joint \in removeRequests /\ cmd.joint = CreatedJoint)

\* the command ran between PreUpdate's read of the flag and its remove-request
C5_Witness ==
    /\ cmd.pc = "remove"
    /\ cmd.joint # kNullEntity
    /\ NextStepReturned
    /\ cmd.joint \in removeRequests

\* C6: between PreUpdate calls detachableJointEntity is not null exactly
\* when initialized is true and the system has issued no remove-request.
C6_JointHandleInvariant ==
    (pc \in {"new", "idle"}) =>
        ((detachableJointEntity # kNullEntity)
            <=> (initialized /\ RemoveCalls = {}))

C6_Witness ==
    /\ pc = "idle"
    /\ initialized
    /\ RemoveCalls # {}
    /\ detachableJointEntity = kNullEntity

\* C7: at most one joint entity is ever created; after a detachment
\* initialized stays true, detachableJointEntity stays null and no later
\* PreUpdate call creates a joint again.
C7_SingleUse ==
    /\ Cardinality(CreateCalls) <= 1
    /\ Cardinality(ComponentCalls) <= 1
    /\ Cardinality(jointComponents) <= 1
    /\ Cardinality({r \in store : r.kind = "detachable_joint"}) <= 1
    /\ RemoveCalls # {} =>
          /\ initialized
          /\ detachableJointEntity = kNullEntity
          /\ Cardinality(CreateCalls) = 1

\* after the detachment another command and two more PreUpdate calls, with
\* the child model and link there to be found
C7_Witness ==
    /\ pc = "idle"
    /\ RemoveCalls # {}
    /\ cmd.pc = "idle"
    /\ cmd.joint = kNullEntity
    /\ cmd.steps = 2
    /\ kNullEntity # ChildModelEntity
    /\ kNullEntity # ChildLinkEntity

\* C8 (as stated): whenever detachRequested is true a later PreUpdate call
\* clears it: every state with detachRequested true is followed by a state
\* with detachRequested false.
C8_FlagAlwaysConsumed == detachRequested ~> ~detachRequested

\* C8 (amended): whenever detachRequested is true while the joint is
\* attached (detachableJointEntity is not null), the next PreUpdate call
\* that starts afterwards clears it, so such a state is followed by a state
\* with detachRequested false; a command received after the detachment
\* leaves the flag set.
C8_FlagConsumedWhileAttached ==
    /\ []((cmd.pc # "none" /\ cmd.joint # kNullEntity /\ ~cmd.later
            /\ NextStepReturned) => ~detachRequested)
    /\ ((detachRequested /\ detachableJointEntity # kNullEntity)
            ~> ~detachRequested)

C8_Witness ==
    /\ cmd.pc = "idle"
    /\ cmd.joint # kNullEntity
    /\ ~cmd.later
    /\ NextStepReturned
    /\ ~detachRequested

\* a step of OnDetachRequest
CommandStep ==
    /\ pc' = pc
    /\ \/ cmd' # cmd
       \/ commanded' # commanded
       \/ detachRequested' # detachRequested

\* a step in which the system mutates the store
StoreMutationStep ==
    \/ ecmCalls' # ecmCalls
    \/ jointComponents' # jointComponents
    \/ removeRequests' # removeRequests
    \/ {r \in store' : r.kind = "detachable_joint"}
         # {r \in store : r.kind = "detachable_joint"}

\* C9: OnDetachRequest sets detachRequested and leaves the store,
\* validConfig, initialized and the three entity handles unchanged; every
\* entity creation, component creation and remove-request is a step of a
\* PreUpdate call.
C9_StoreMutatedOnlyInStep ==
    [][/\ CommandStep =>
            /\ detachRequested'
            /\ UNCHANGED <<store, entityCount, jointComponents,
                           removeRequests, ecmCalls, validConfig, initialized,
                           parentLinkEntity, childLinkEntity,
                           detachableJointEntity>>
       /\ StoreMutationStep =>
            /\ ~CommandStep
            /\ pc \in {"idle", "remove"}
            /\ pc' \in {"subscribed", "clear"}]_vars

\* a command ran while PreUpdate was in progress and the joint existed
C9_Witness ==
    /\ cmd.pc = "check"
    /\ cmd.joint # kNullEntity
    /\ detachRequested
    /\ pc = "check"

\* C10: validConfig is written by Configure only; initialized changes only
\* from false to true, in the PreUpdate call that has just created the
\* joint entity and its component, and nothing resets it.
C10_FlagsWrittenOnce ==
    [][/\ validConfig' # validConfig => (pc = "new" /\ validConfig')
       /\ initialized' # initialized =>
            /\ initialized'
            /\ pc = "subscribed"
            /\ Len(ecmCalls) = 2
            /\ ecmCalls[1] = EcmCall("CreateEntity", detachableJointEntity)
            /\ ecmCalls[2] = EcmCall("CreateComponent", detachableJointEntity)
       /\ (pc' = "subscribed" /\ pc # "subscribed") =>
            /\ pc = "idle"
            /\ ecmCalls = <<>>
            /\ Len(ecmCalls') = 2
       /\ pc = "subscribed" => (pc' = "subscribed" \/ initialized')]_vars

\* initialized and validConfig still true after a detachment and more calls
C10_Witness ==
    /\ pc = "idle"
    /\ validConfig
    /\ initialized
    /\ RemoveCalls # {}
    /\ tick > initTick


\* the warning a PreUpdate call that starts now has to emit
ExpectedWarning ==
    LET modelFound ==
            IF sdf.child_model = "__model__" THEN TRUE
            ELSE \E r \in store : r.kind = "model" /\ r.name = sdf.child_model
        linkFound ==
            \E r \in store :
                /\ r.kind = "link"
                /\ r.name = sdf.child_link
                /\ IF sdf.child_model = "__model__" THEN r.parent = model
                   ELSE \E m \in store :
                            /\ m.kind = "model"
                            /\ m.name = sdf.child_model
                            /\ m.id = r.parent
    IN  IF ~validConfig \/ initialized THEN "none"
        ELSE IF ~modelFound THEN
            (IF suppressChildWarning THEN "none" ELSE "child model")
        ELSE IF ~linkFound THEN "child link"
        ELSE "none"

\* C11: a PreUpdate call with validConfig true and initialized false warns
\* "child model not found" exactly when the child model does not resolve and
\* suppressChildWarning is false, warns "child link not found" whenever the
\* model resolves and the link does not, whatever suppressChildWarning is,
\* and a call in which both resolve, or in which initialized is already
\* true, emits no warning; nothing later in the call adds a warning.
C11_DiscoveryWarnings ==
    [][/\ (pc = "idle" /\ pc' # "idle") => warned' = ExpectedWarning
       /\ (pc \notin {"new", "idle"}) => warned' = warned]_vars

\* a call has warned about the child link although the warning about the
\* child model is suppressed
C11_Witness ==
    /\ pc = "check"
    /\ warned = "child link"
    /\ suppressChildWarning
    /\ validConfig
    /\ ~initialized

\* the name, in the world, of the entity Configure was called with
ConfiguredModelName ==
    IF \E r \in World : r.id = model
    THEN (CHOOSE r \in World : r.id = model).name
    ELSE ""

\* C12: after a successful Configure the command topic is the explicit
\* topic when one is given and valid, and
\* /model/<model-name>/detachable_joint/detach when no topic is given or the
\* given one is invalid; every subscription is to that topic.
C12_TopicSelection ==
    validConfig =>
        /\ topic =
             IF sdf.topic # NoElement /\ IsValidTopic(sdf.topic)
             THEN sdf.topic
             ELSE "/model/" \o ConfiguredModelName \o "/detachable_joint/detach"
        /\ \A i \in DOMAIN subscriptions : subscriptions[i] = topic

\* the default topic is subscribed although a topic was given: the given one
\* is invalid
C12_Witness ==
    /\ validConfig
    /\ sdf.topic = BadTopic
    /\ subscriptions = <<"/model/M/detachable_joint/detach">>


\* C15: detachRequested is written in two ways only: OnDetachRequest sets
\* it, and PreUpdate clears it.  PreUpdate never sets it, Configure never
\* writes it, and PreUpdate clears it only at the end of a call that found
\* initialized, detachRequested and a non-null detachableJointEntity, has
\* requested the removal of that entity and has nulled the handle.
C15_FlagWrites ==
    [][/\ (detachRequested' # detachRequested) =>
            \/ detachRequested' /\ pc' = pc /\ subscriptions # <<>>
            \/ ~detachRequested' /\ pc = "clear" /\ pc' = "idle"
                  /\ detachableJointEntity = kNullEntity
       /\ (pc' = "clear" /\ pc # "clear") =>
            /\ pc = "remove"
            /\ initialized
            /\ detachRequested
            /\ detachableJointEntity # kNullEntity
            /\ detachableJointEntity' = kNullEntity
            /\ ecmCalls' = ecmCalls \o
                 <<EcmCall("RequestRemoveEntity", detachableJointEntity)>>
       /\ (pc' = "remove" /\ pc # "remove") =>
            (pc = "check" /\ initialized /\ detachRequested
               /\ detachableJointEntity # kNullEntity)
       /\ (pc = "new") => detachRequested' = detachRequested]_vars

\* the flag was set by a command and cleared by the call that requested the
\* removal
C15_Witness ==
    /\ pc = "idle"
    /\ commanded
    /\ ~detachRequested
    /\ RemoveCalls # {}
    /\ detachableJointEntity = kNullEntity

\* what Configure, called now with the entity and the element it leaves in
\* model and sdf, has to find for the configuration to be valid
ValidAtConfigure ==
    /\ \E r \in store : r.id = model' /\ r.kind = "model"
    /\ sdf'.parent_link # NoElement
    /\ \E r \in store :
           r.kind = "link" /\ r.parent = model' /\ r.name = sdf'.parent_link
    /\ sdf'.child_model # NoElement
    /\ sdf'.child_link # NoElement

\* the system has done nothing
Inert ==
    /\ NoStoreMutation
    /\ ~initialized
    /\ subscriptions = <<>>
    /\ warned = "none"
    /\ ~detachRequested
    /\ detachableJointEntity = kNullEntity

\* C16: Configure sets validConfig exactly when the entity is a model of the
\* store, parent_link is present and names a link that model has at the time
\* of the call, and child_model and child_link are present; otherwise
\* validConfig stays false, nothing changes it later, and no PreUpdate call
\* does anything, whatever appears in the store after Configure.
C16_ConfigureValidity ==
    /\ []((pc # "new" /\ ~validConfig) => Inert)
    /\ [][/\ (pc = "new" /\ pc' # "new") =>
                (validConfig' <=> ValidAtConfigure)
          /\ (pc # "new") => validConfig' = validConfig]_vars

\* Configure failed for want of the parent link; the link is in the model
\* now, the child link too, and a PreUpdate call has run
C16_Witness ==
    /\ pc = "idle"
    /\ tick >= 1
    /\ ~validConfig
    /\ ~MissingRequired
    /\ ModelValid(model)
    /\ LinkByName(model, sdf.parent_link) # kNullEntity
    /\ sdf.child_model = "__model__"
    /\ LinkByName(model, sdf.child_link) # kNullEntity


\* C17: over the whole life of the system at most one removal is requested;
\* it comes after the creation of the joint entity and names that entity.
\* However many OnDetachRequest calls run between two PreUpdate calls, and
\* however many after the detachment, there is no second request.
C17_SingleRemoval ==
    /\ Cardinality(RemoveCalls) <= 1
    /\ Cardinality(removeRequests) <= 1
    /\ \A i \in RemoveCalls :
          /\ ecmCalls[i].entity = CreatedJoint
          /\ ecmCalls[i].entity # kNullEntity
          /\ ecmCalls[i].entity \in removeRequests
          /\ \E j \in CreateCalls :
                j < i /\ ecmCalls[j].entity = ecmCalls[i].entity
    /\ \A e \in removeRequests :
          \E i \in RemoveCalls : ecmCalls[i].entity = e

\* two OnDetachRequest calls ran between two PreUpdate calls while the joint
\* was attached, and the calls started since have requested one removal
C17_Witness ==
    /\ cmd.pc = "idle"
    /\ cmd.joint # kNullEntity
    /\ cmd.together
    /\ cmd.steps = 2
    /\ pc = "idle"
    /\ Cardinality(RemoveCalls) = 1
    /\ removeRequests = {cmd.joint}


\* C18 (as stated): detachRequested implies initialized in every reachable
\* state.
C18_FlagImpliesInitialized == detachRequested => initialized

\* the component of the created joint is in the store
JointExists ==
    /\ CreatedJoint # kNullEntity
    /\ \E c \in jointComponents : c.entity = CreatedJoint
    /\ \E i \in CreateCalls : \E j \in ComponentCalls : i < j

\* C18 (amended): the system subscribes once, to the command topic, in the
\* PreUpdate call that creates the joint entity and after the entity and
\* its component were created.  With commands delivered through that
\* subscription only, no command is received before the joint exists:
\* detachRequested implies that the joint entity and its component were
\* created, in every reachable state, and implies initialized in every
\* state between two PreUpdate calls; inside the creating call, between
\* Subscribe and the assignment of initialized, a command can set
\* detachRequested while initialized is still false.
C18_SubscribeOnce ==
    /\ [](/\ Len(subscriptions) <= 1
          /\ (subscriptions # <<>>) => (subscriptions = <<topic>> /\ JointExists)
          /\ (detachRequested \/ commanded \/ cmd.pc # "none") =>
                (subscriptions # <<>> /\ JointExists)
          /\ (detachRequested /\ pc = "idle") => initialized
          /\ (detachRequested /\ ~initialized) => pc = "subscribed")
    /\ [][(subscriptions' # subscriptions) =>
            /\ pc = "idle" /\ pc' = "subscribed"
            /\ subscriptions = <<>>
            /\ ecmCalls' = ecmCalls \o
                 <<EcmCall("CreateEntity", detachableJointEntity'),
                   EcmCall("CreateComponent", detachableJointEntity')>>]_vars

\* a command received between Subscribe and the assignment of initialized
\* was served by the same PreUpdate call
C18_Witness ==
    /\ cmd.pc = "subscribed"
    /\ ~cmd.initialized
    /\ cmd.joint # kNullEntity
    /\ cmd.steps = 0
    /\ pc = "idle"
    /\ initialized
    /\ removeRequests = {cmd.joint}


\* the record, in the world, of an entity
WorldEntity(e) == CHOOSE r \in World : r.id = e

\* C19: every DetachableJoint component the system creates records a
\* non-null parent link, the one Configure found by the name parent_link in
\* the model, a non-null child link, the one the creating PreUpdate call
\* found by the name child_link in the model itself when child_model is
\* "__model__" and in the model of that name otherwise, and the type
\* "fixed"; no joint entity is created while either link handle is null.
C19_JointComponent ==
    /\ \A c \in jointComponents :
          /\ c.entity = CreatedJoint
          /\ c.jointType = "fixed"
          /\ c.parentLink # kNullEntity
          /\ c.parentLink = parentLinkEntity
          /\ \E r \in World : r.id = c.parentLink
          /\ WorldEntity(c.parentLink).kind = "link"
          /\ WorldEntity(c.parentLink).name = sdf.parent_link
          /\ WorldEntity(c.parentLink).parent = model
          /\ c.childLink # kNullEntity
          /\ c.childLink = childLinkEntity
          /\ \E r \in World : r.id = c.childLink
          /\ WorldEntity(c.childLink).kind = "link"
          /\ WorldEntity(c.childLink).name = sdf.child_link
          /\ IF sdf.child_model = "__model__"
             THEN WorldEntity(c.childLink).parent = model
             ELSE \E m \in World :
                      /\ m.kind = "model"
                      /\ m.name = sdf.child_model
                      /\ m.id = WorldEntity(c.childLink).parent
    /\ (CreatedJoint # kNullEntity) =>
          /\ parentLinkEntity # kNullEntity
          /\ childLinkEntity # kNullEntity
          /\ \E c \in jointComponents : c.entity = CreatedJoint

\* the joint to the link of another model, named by child_model, exists
C19_Witness ==
    /\ sdf.child_model = "B"
    /\ \E c \in jointComponents :
          /\ c.parentLink = 2
          /\ c.childLink = 5
          /\ c.jointType = "fixed"
          /\ c.entity = detachableJointEntity


\* the handles in invoked
InvokedSet == {invoked[i] : i \in DOMAIN invoked}

\* C13: an Emit call invokes listeners connected to the emitted event only,
\* never one connected to another event, of the same signature or not
\* (Pause and EnableSensors, Stop and Render); it invokes no listener
\* twice and follows the order of connection; and when it returns, every
\* listener that was connected when it was called and still is has been
\* invoked.
C13_EventIsolationAndOrder ==
    /\ \A i \in DOMAIN invoked :
          /\ invoked[i] \in DOMAIN listeners
          /\ listeners[invoked[i]].event = emission.event
    /\ \A i, j \in DOMAIN invoked : i < j => invoked[i] < invoked[j]
    /\ (emission.status = "returned") =>
          \A h \in emission.atStart : listeners[h].on => h \in InvokedSet

\* Emit of Pause has returned: it invoked the two listeners of Pause in the
\* order of their connection and not the listener of EnableSensors, which
\* was connected between them
C13_Witness ==
    /\ emission.event = "Pause"
    /\ emission.status = "returned"
    /\ Len(listeners) = 3
    /\ listeners[1].event = "Pause"
    /\ listeners[2].event = "EnableSensors"
    /\ listeners[3].event = "Pause"
    /\ \A h \in 1..3 : listeners[h].on
    /\ emission.atStart = {1, 3}
    /\ invoked = <<1, 3>>

\* C14: no Emit call invokes a listener after Disconnect was called with
\* its handle, also when Disconnect is called by another listener during
\* the Emit call that has not reached it yet; Disconnect on a handle that
\* is disconnected already changes nothing.
C14_DisconnectCorrectness ==
    [][/\ (invoked' # invoked /\ invoked' # <<>>) =>
            LET h == invoked'[Len(invoked')]
            IN  /\ h \in DOMAIN listeners
                /\ listeners[h].on
                /\ listeners[h].disconnects = 0
       /\ \A h \in DOMAIN listeners :
            (listeners[h].disconnects >= 1) =>
                /\ h \in DOMAIN listeners'
                /\ ~listeners'[h].on
                /\ (listeners'[h].disconnects # listeners[h].disconnects) =>
                      /\ \A g \in DOMAIN listeners :
                            listeners'[g].on = listeners[g].on
                      /\ Len(listeners') = Len(listeners)
                      /\ UNCHANGED <<emission, invoked>>]_vars

\* an Emit call has returned without invoking a listener that was
\* connected when the call was made: Disconnect was called on its handle,
\* twice, after the first listener was invoked
C14_Witness ==
    /\ emission.status = "returned"
    /\ emission.atStart = {1, 2}
    /\ invoked = <<1>>
    /\ listeners[2].disconnects = 2
    /\ ~listeners[2].on
    /\ listeners[1].on

=============================================================================
